---- MODULE Spec2Model ----
(***************************************************************************)
(* The resource graph built by BedrockVoiceKnowledgeStack's constructor    *)
(* (lib/cdk-stack.ts).  The constructor is one straight-line pass; every   *)
(* statement of it is one action, taken in program order.  The state is    *)
(* the construct tree of the stack (each construct with the properties it  *)
(* was declared with), the constructor's local bindings and its position.  *)
(***************************************************************************)
EXTENDS Integers, Sequences, FiniteSets, TLC

\* How many distinct stack identifiers the enclosing scope may hold or be asked for.
NumStackIds == 2

\* The identifiers a caller can pass as `id`, and that the scope may already hold.
StackIds == 1..NumStackIds

\* What `this.region` can be: the region props.env names, or the deploy-time
\* reference to AWS::Region when props names none.
Regions == {"us-east-1", "eu-west-1", "AWS::Region"}

VARIABLES
  pc,             \* the statement of the constructor to execute next
  id,             \* constructor argument `id`
  region,         \* this.region, as resolved from `props`
  scopeChildren,  \* identifiers of the constructs already under `scope`
  error,          \* what aborted the pass, "none" while it runs
  locals,         \* the constructor's initialised `const` bindings: name -> path
  order,          \* the paths of the constructs of the stack, in construction order
  constructs      \* the construct tree of the stack: path -> declared properties

vars == <<pc, id, region, scopeChildren, error, locals, order, constructs>>

----------------------------------------------------------------------------
(* Values.  A value is a sequence of parts; a part is a literal string or  *)
(* a reference to a generated attribute of a construct of the graph.       *)

Lit(s) == [ref |-> <<>>, attr |-> "", lit |-> s]

Token(path, attr) == [ref |-> path, attr |-> attr, lit |-> ""]

IsToken(part) == part.attr # ""

\* the constructs a value refers to
ValueRefs(v) == {v[i].ref : i \in {j \in 1..Len(v) : IsToken(v[j])}}

Range(s) == {s[i] : i \in 1..Len(s)}

\* position of a path in the construction order, 0 when absent
IndexOf(p) == IF p \in Range(order) THEN CHOOSE i \in 1..Len(order) : order[i] = p ELSE 0

----------------------------------------------------------------------------
(* The statements of the constructor, in program order.                    *)

\* a variant: the query handler declared before the data source it reads
ProgramHandlerBeforeBinding ==
  << "super",
     "DocumentBucket",
     "LambdaServiceRole", "LambdaBedrockPolicy", "LambdaPollyPolicy",
     "LambdaTranscribePolicy", "LambdaS3Policy",
     "BedrockServiceRole", "BedrockS3Policy", "BedrockInvokePolicy",
     "VectorKnowledgeBase",
     "QueryWithVoiceFunction",
     "S3DataSource",
     "TranscribeLayer",
     "SpeechToTextFunction",
     "MultimodalKnowledgeApi",
     "knowledgeBaseResource", "queryResource", "queryMethod",
     "transcribeResource", "transcribeMethod",
     "ApiUrl", "KnowledgeBaseId", "DataSourceId", "DocumentBucketName" >>

Program ==
  << "super",
     "DocumentBucket",
     "LambdaServiceRole", "LambdaBedrockPolicy", "LambdaPollyPolicy",
     "LambdaTranscribePolicy", "LambdaS3Policy",
     "BedrockServiceRole", "BedrockS3Policy", "BedrockInvokePolicy",
     "VectorKnowledgeBase",
     "S3DataSource",
     "TranscribeLayer",
     "SpeechToTextFunction",
     "QueryWithVoiceFunction",
     "MultimodalKnowledgeApi",
     "knowledgeBaseResource", "queryResource", "queryMethod",
     "transcribeResource", "transcribeMethod",
     "ApiUrl", "KnowledgeBaseId", "DataSourceId", "DocumentBucketName" >>

\* the statement that follows `label`; "done" after the last one
After(label) ==
  LET i == CHOOSE k \in 1..Len(Program) : Program[k] = label
  IN  IF i = Len(Program) THEN "done" ELSE Program[i + 1]

----------------------------------------------------------------------------
(* The properties each construct is declared with.                         *)

DocumentBucketProps ==
  [ type              |-> "Bucket",
    removalPolicy     |-> "DESTROY",
    autoDeleteObjects |-> TRUE,
    versioned         |-> TRUE,
    blockPublicAccess |-> "BLOCK_ALL",
    encryption        |-> "S3_MANAGED" ]

LambdaServiceRoleProps ==
  [ type            |-> "Role",
    assumedBy       |-> "lambda.amazonaws.com",
    managedPolicies |-> {"service-role/AWSLambdaBasicExecutionRole"},
    statements      |-> <<>> ]

\* a variant: the knowledge-engine role given a managed policy as well
BedrockServiceRolePropsManaged ==
  [ type            |-> "Role",
    assumedBy       |-> "bedrock.amazonaws.com",
    managedPolicies |-> {"AmazonS3FullAccess"},
    statements      |-> <<>> ]

BedrockServiceRoleProps ==
  [ type            |-> "Role",
    assumedBy       |-> "bedrock.amazonaws.com",
    managedPolicies |-> {},
    statements      |-> <<>> ]

\* The policy statements: an action set and a resource set.
LambdaBedrockStatement ==
  [ actions   |-> { "bedrock:InvokeModel", "bedrock:Retrieve",
                    "bedrock:RetrieveAndGenerate", "bedrock:ListKnowledgeBases",
                    "bedrock:GetKnowledgeBase", "bedrock:UpdateKnowledgeBase",
                    "bedrock:CreateKnowledgeBase", "bedrock:DeleteKnowledgeBase",
                    "bedrock-agent:*", "bedrock-agent-runtime:*" },
    resources |-> { <<Lit("*")>> } ]

LambdaPollyStatement ==
  [ actions   |-> { "polly:SynthesizeSpeech", "polly:DescribeVoices" },
    resources |-> { <<Lit("*")>> } ]

LambdaTranscribeStatement ==
  [ actions   |-> { "transcribe:StartStreamTranscription",
                    "transcribe:StartStreamTranscriptionWebSocket" },
    resources |-> { <<Lit("*")>> } ]

\* a variant: the handler role's S3 statement left on the wildcard resource
LambdaS3StatementWildcard(bucket) ==
  [ actions   |-> { "s3:GetObject", "s3:PutObject", "s3:ListBucket" },
    resources |-> { <<Lit("*")>> } ]

LambdaS3Statement(bucket) ==
  [ actions   |-> { "s3:GetObject", "s3:PutObject", "s3:ListBucket" },
    resources |-> { <<Token(bucket, "bucketArn")>>,
                    <<Token(bucket, "bucketArn"), Lit("/*")>> } ]

\* a variant: the knowledge-engine role's S3 statement without the objects pattern
BedrockS3StatementBucketOnly(bucket) ==
  [ actions   |-> { "s3:GetObject", "s3:PutObject", "s3:ListBucket" },
    resources |-> { <<Token(bucket, "bucketArn")>> } ]

BedrockS3Statement(bucket) ==
  [ actions   |-> { "s3:GetObject", "s3:PutObject", "s3:ListBucket" },
    resources |-> { <<Token(bucket, "bucketArn")>>,
                    <<Token(bucket, "bucketArn"), Lit("/*")>> } ]

BedrockInvokeStatement ==
  [ actions   |-> { "bedrock:InvokeModel" },
    resources |-> { <<Lit("*")>> } ]

VectorKnowledgeBaseProps(role) ==
  [ type            |-> "VectorKnowledgeBase",
    embeddingsModel |-> "TITAN_EMBED_TEXT_V1",
    name            |-> "VoiceEnabledKnowledgeBase",
    description     |-> "Vector knowledge base with voice capabilities",
    existingRole    |-> role ]

MaxTokens == 500

OverlapPercentage == 20

\* a variant: chunks that overlap entirely
FixedSizeChunkingFullOverlap ==
  [ strategy          |-> "FIXED_SIZE",
    maxTokens         |-> MaxTokens,
    overlapPercentage |-> 100 ]

\* bedrock.ChunkingStrategy.fixedSize({maxTokens, overlapPercentage})
FixedSizeChunking ==
  [ strategy          |-> "FIXED_SIZE",
    maxTokens         |-> MaxTokens,
    overlapPercentage |-> OverlapPercentage ]

S3DataSourceProps(bucket, kb) ==
  [ type             |-> "S3DataSource",
    bucket           |-> bucket,
    knowledgeBase    |-> kb,
    dataSourceName   |-> "DocumentSource",
    chunkingStrategy |-> FixedSizeChunking ]

TranscribeLayerProps ==
  [ type               |-> "LayerVersion",
    code               |-> "../lambda/layers/transcribe_streaming.zip",
    compatibleRuntimes |-> {"PYTHON_3_13"},
    description        |-> "Layer containing Amazon Transcribe streaming SDK" ]

TimeoutSeconds == 30

MemorySize == 256

\* environment of the speech-to-text function
SpeechToTextEnvironment(rgn) ==
  [ REGION |-> <<Lit(rgn)>> ]

\* a variant: the query handler's environment without the data-source identifier
QueryWithVoiceEnvironmentNoDataSource(kb, rgn, ds) ==
  [ KNOWLEDGE_BASE_ID |-> <<Token(kb, "knowledgeBaseId")>>,
    REGION            |-> <<Lit(rgn)>> ]

\* environment of the query-with-voice function
QueryWithVoiceEnvironment(kb, rgn, ds) ==
  [ KNOWLEDGE_BASE_ID |-> <<Token(kb, "knowledgeBaseId")>>,
    REGION            |-> <<Lit(rgn)>>,
    DATA_SOURCE_ID    |-> <<Token(ds, "dataSourceId")>> ]

SpeechToTextFunctionProps(role, layer, rgn) ==
  [ type        |-> "Function",
    runtime     |-> "PYTHON_3_13",
    handler     |-> "transcribe_function.lambda_handler",
    code        |-> "../lambda/transcribe/src",
    role        |-> role,
    timeout     |-> TimeoutSeconds,
    memorySize  |-> MemorySize,
    layers      |-> <<layer>>,
    environment |-> SpeechToTextEnvironment(rgn) ]

QueryWithVoiceFunctionProps(role, kb, ds, rgn) ==
  [ type        |-> "Function",
    runtime     |-> "PYTHON_3_13",
    handler     |-> "kb_polly_function.lambda_handler",
    code        |-> "../lambda/queryKnowledgeBase/src",
    role        |-> role,
    timeout     |-> TimeoutSeconds,
    memorySize  |-> MemorySize,
    layers      |-> <<>>,
    environment |-> QueryWithVoiceEnvironment(kb, rgn, ds) ]

\* apigateway.Cors.ALL_METHODS
CorsAllMethods == {"OPTIONS", "GET", "PUT", "POST", "DELETE", "PATCH", "HEAD"}

MultimodalKnowledgeApiProps ==
  [ type        |-> "RestApi",
    restApiName |-> "Bedrock Voice Knowledge API",
    description |-> "API for interacting with a Bedrock knowledge base using voice and text",
    defaultCorsPreflightOptions |->
      [ allowOrigins |-> {"*"},
        allowMethods |-> CorsAllMethods,
        allowHeaders |-> {"Content-Type", "X-Amz-Date", "Authorization", "X-Api-Key"} ] ]

\* path parts and verbs of the two endpoints
KnowledgeBasePathPart == "knowledge-base"

QueryPathPart == "query"

\* a variant: the transcribe resource added under the path part already in use
TranscribePathPartTaken == "knowledge-base"

TranscribePathPart == "transcribe"

\* a variant: the query method registered under another verb
QueryVerbGet == "GET"

QueryVerb == "POST"

\* a variant: the transcribe method registered under another verb
TranscribeVerbGet == "GET"

TranscribeVerb == "POST"

\* new apigateway.LambdaIntegration(fn)
LambdaIntegration(fn) == [ type |-> "AWS_PROXY", handler |-> fn ]

\* the integration of a CORS preflight method
MockIntegration == [ type |-> "MOCK", handler |-> <<>> ]

ApiUrlOutput(api) ==
  [ type |-> "CfnOutput", value |-> <<Token(api, "url")>>,
    description |-> "URL of the API Gateway" ]

KnowledgeBaseIdOutput(kb) ==
  [ type |-> "CfnOutput", value |-> <<Token(kb, "knowledgeBaseId")>>,
    description |-> "ID of the created Bedrock Knowledge Base" ]

DataSourceIdOutput(ds) ==
  [ type |-> "CfnOutput", value |-> <<Token(ds, "dataSourceId")>>,
    description |-> "ID of the S3 data source" ]

DocumentBucketNameOutput(bucket) ==
  [ type |-> "CfnOutput", value |-> <<Token(bucket, "bucketName")>>,
    description |-> "Name of the S3 bucket for document storage" ]

----------------------------------------------------------------------------
(* How a statement executes.                                               *)

Init ==
  /\ pc = Program[1]
  /\ id \in StackIds
  /\ region \in Regions
  /\ scopeChildren \in SUBSET StackIds
  /\ error = "none"
  /\ locals = <<>>
  /\ order = <<>>
  /\ constructs = <<>>

\* An exception leaves the constructor: the pass ends without a graph.
Throw(e) ==
  /\ pc' = "aborted"
  /\ error' = e
  /\ UNCHANGED <<id, region, scopeChildren, locals, order, constructs>>

\* A `const` read before its declaration has run is a ReferenceError.
Bound(names) == names \subseteq DOMAIN locals

Decl(path, props) == [path |-> path, props |-> props]

\* Statement `label` adds the constructs `decls` (in that order) to the tree and
\* binds `local` (when it has one) to the first of them.  It reads the bindings
\* `refs`; a construct tree holds at most one construct per path.
Declare(label, refs, local, decls) ==
  /\ pc = label
  /\ IF ~ Bound(refs)
       THEN Throw("ReferenceError")
       ELSE IF \E i \in 1..Len(decls) :
                 \/ decls[i].path \in DOMAIN constructs
                 \/ \E j \in 1..(i - 1) : decls[j].path = decls[i].path
         THEN Throw("collision")
         ELSE /\ constructs' =
                   [p \in DOMAIN constructs \cup {decls[i].path : i \in 1..Len(decls)} |->
                      IF p \in DOMAIN constructs
                        THEN constructs[p]
                        ELSE decls[CHOOSE i \in 1..Len(decls) : decls[i].path = p].props]
              /\ order' = order \o [i \in 1..Len(decls) |-> decls[i].path]
              /\ locals' = IF local = "" THEN locals
                           ELSE [n \in DOMAIN locals \cup {local} |->
                                   IF n = local THEN decls[1].path ELSE locals[n]]
              /\ pc' = After(label)
              /\ UNCHANGED <<id, region, scopeChildren, error>>

\* Statement `label` is `<roleLocal>.addToPolicy(new iam.PolicyStatement(stmt))`.
AddToPolicy(label, refs, roleLocal, stmt) ==
  /\ pc = label
  /\ IF ~ Bound(refs \cup {roleLocal})
       THEN Throw("ReferenceError")
       ELSE /\ constructs' =
                 [constructs EXCEPT ![locals[roleLocal]].statements = Append(@, stmt)]
            /\ pc' = After(label)
            /\ UNCHANGED <<id, region, scopeChildren, error, locals, order>>

\* The constructs `parent.addResource(pathPart)` adds: the resource and, since
\* the API declares default CORS preflight options, its OPTIONS method.
ResourceDecls(api, parent, path, pathPart) ==
  << Decl(path, [type |-> "Resource", api |-> api, parent |-> parent,
                 pathPart |-> pathPart]) >>
  \o IF constructs[api].defaultCorsPreflightOptions.allowOrigins # {}
       THEN << Decl(Append(path, "OPTIONS"),
                    [type |-> "Method", resource |-> path, httpMethod |-> "OPTIONS",
                     integration |-> MockIntegration]) >>
       ELSE << >>

\* The constructs `new apigateway.RestApi(this, id, props)` adds: the API, its
\* root resource and the root's CORS preflight method.
RestApiDecls(path, props) ==
  << Decl(path, props),
     Decl(Append(path, "Default"),
          [type |-> "Resource", api |-> path, parent |-> <<>>, pathPart |-> ""]) >>
  \o IF props.defaultCorsPreflightOptions.allowOrigins # {}
       THEN << Decl(path \o <<"Default", "OPTIONS">>,
                    [type |-> "Method", resource |-> Append(path, "Default"),
                     httpMethod |-> "OPTIONS", integration |-> MockIntegration]) >>
       ELSE << >>

\* api.root
RootOf(api) == Append(api, "Default")

\* The construct `resource.addMethod(verb, integration)` adds.
MethodDecls(resource, verb, integration) ==
  << Decl(Append(resource, verb),
          [type |-> "Method", resource |-> resource, httpMethod |-> verb,
           integration |-> integration]) >>

----------------------------------------------------------------------------
(* The statements.                                                         *)

\* super(scope, id, props): the stack becomes a child of `scope`
Super ==
  /\ pc = "super"
  /\ IF id \in scopeChildren
       THEN Throw("collision")
       ELSE /\ scopeChildren' = scopeChildren \cup {id}
            /\ pc' = After("super")
            /\ UNCHANGED <<id, region, error, locals, order, constructs>>

NewDocumentBucket ==
  Declare("DocumentBucket", {}, "documentBucket",
          << Decl(<<"DocumentBucket">>, DocumentBucketProps) >>)

NewLambdaServiceRole ==
  Declare("LambdaServiceRole", {}, "lambdaServiceRole",
          << Decl(<<"LambdaServiceRole">>, LambdaServiceRoleProps) >>)

AddLambdaBedrockPolicy ==
  AddToPolicy("LambdaBedrockPolicy", {}, "lambdaServiceRole", LambdaBedrockStatement)

AddLambdaPollyPolicy ==
  AddToPolicy("LambdaPollyPolicy", {}, "lambdaServiceRole", LambdaPollyStatement)

AddLambdaTranscribePolicy ==
  AddToPolicy("LambdaTranscribePolicy", {}, "lambdaServiceRole",
              LambdaTranscribeStatement)

AddLambdaS3Policy ==
  AddToPolicy("LambdaS3Policy", {"documentBucket"}, "lambdaServiceRole",
              LambdaS3Statement(locals["documentBucket"]))

NewBedrockServiceRole ==
  Declare("BedrockServiceRole", {}, "bedrockServiceRole",
          << Decl(<<"BedrockServiceRole">>, BedrockServiceRoleProps) >>)

AddBedrockS3Policy ==
  AddToPolicy("BedrockS3Policy", {"documentBucket"}, "bedrockServiceRole",
              BedrockS3Statement(locals["documentBucket"]))

AddBedrockInvokePolicy ==
  AddToPolicy("BedrockInvokePolicy", {}, "bedrockServiceRole", BedrockInvokeStatement)

NewVectorKnowledgeBase ==
  Declare("VectorKnowledgeBase", {"bedrockServiceRole"}, "knowledgeBase",
          << Decl(<<"VectorKnowledgeBase">>,
                  VectorKnowledgeBaseProps(locals["bedrockServiceRole"])) >>)

NewS3DataSource ==
  Declare("S3DataSource", {"documentBucket", "knowledgeBase"}, "s3DataSource",
          << Decl(<<"S3DataSource">>,
                  S3DataSourceProps(locals["documentBucket"],
                                    locals["knowledgeBase"])) >>)

NewTranscribeLayer ==
  Declare("TranscribeLayer", {}, "transcribeLayer",
          << Decl(<<"TranscribeLayer">>, TranscribeLayerProps) >>)

NewSpeechToTextFunction ==
  Declare("SpeechToTextFunction", {"lambdaServiceRole", "transcribeLayer"},
          "speechToTextFunction",
          << Decl(<<"SpeechToTextFunction">>,
                  SpeechToTextFunctionProps(locals["lambdaServiceRole"],
                                            locals["transcribeLayer"], region)) >>)

NewQueryWithVoiceFunction ==
  Declare("QueryWithVoiceFunction",
          {"lambdaServiceRole", "knowledgeBase", "s3DataSource"},
          "queryWithVoiceFunction",
          << Decl(<<"QueryWithVoiceFunction">>,
                  QueryWithVoiceFunctionProps(locals["lambdaServiceRole"],
                                              locals["knowledgeBase"],
                                              locals["s3DataSource"], region)) >>)

NewMultimodalKnowledgeApi ==
  Declare("MultimodalKnowledgeApi", {}, "api",
          RestApiDecls(<<"MultimodalKnowledgeApi">>, MultimodalKnowledgeApiProps))

AddKnowledgeBaseResource ==
  Declare("knowledgeBaseResource", {"api"}, "knowledgeBaseResource",
          ResourceDecls(locals["api"], RootOf(locals["api"]),
                        Append(RootOf(locals["api"]), KnowledgeBasePathPart),
                        KnowledgeBasePathPart))

AddQueryResource ==
  Declare("queryResource", {"knowledgeBaseResource"}, "queryResource",
          ResourceDecls(constructs[locals["knowledgeBaseResource"]].api,
                        locals["knowledgeBaseResource"],
                        Append(locals["knowledgeBaseResource"], QueryPathPart),
                        QueryPathPart))

AddQueryMethod ==
  Declare("queryMethod", {"queryResource", "queryWithVoiceFunction"}, "",
          MethodDecls(locals["queryResource"], QueryVerb,
                      LambdaIntegration(locals["queryWithVoiceFunction"])))

AddTranscribeResource ==
  Declare("transcribeResource", {"api"}, "transcribeResource",
          ResourceDecls(locals["api"], RootOf(locals["api"]),
                        Append(RootOf(locals["api"]), TranscribePathPart),
                        TranscribePathPart))

AddTranscribeMethod ==
  Declare("transcribeMethod", {"transcribeResource", "speechToTextFunction"}, "",
          MethodDecls(locals["transcribeResource"], TranscribeVerb,
                      LambdaIntegration(locals["speechToTextFunction"])))

OutputApiUrl ==
  Declare("ApiUrl", {"api"}, "",
          << Decl(<<"ApiUrl">>, ApiUrlOutput(locals["api"])) >>)

OutputKnowledgeBaseId ==
  Declare("KnowledgeBaseId", {"knowledgeBase"}, "",
          << Decl(<<"KnowledgeBaseId">>,
                  KnowledgeBaseIdOutput(locals["knowledgeBase"])) >>)

OutputDataSourceId ==
  Declare("DataSourceId", {"s3DataSource"}, "",
          << Decl(<<"DataSourceId">>, DataSourceIdOutput(locals["s3DataSource"])) >>)

OutputDocumentBucketName ==
  Declare("DocumentBucketName", {"documentBucket"}, "",
          << Decl(<<"DocumentBucketName">>,
                  DocumentBucketNameOutput(locals["documentBucket"])) >>)

Next ==
  \/ Super
  \/ NewDocumentBucket
  \/ NewLambdaServiceRole
  \/ AddLambdaBedrockPolicy
  \/ AddLambdaPollyPolicy
  \/ AddLambdaTranscribePolicy
  \/ AddLambdaS3Policy
  \/ NewBedrockServiceRole
  \/ AddBedrockS3Policy
  \/ AddBedrockInvokePolicy
  \/ NewVectorKnowledgeBase
  \/ NewS3DataSource
  \/ NewTranscribeLayer
  \/ NewSpeechToTextFunction
  \/ NewQueryWithVoiceFunction
  \/ NewMultimodalKnowledgeApi
  \/ AddKnowledgeBaseResource
  \/ AddQueryResource
  \/ AddQueryMethod
  \/ AddTranscribeResource
  \/ AddTranscribeMethod
  \/ OutputApiUrl
  \/ OutputKnowledgeBaseId
  \/ OutputDataSourceId
  \/ OutputDocumentBucketName

Spec == Init /\ [][Next]_vars

----------------------------------------------------------------------------
(* Reading the graph.                                                      *)

Done == pc = "done"

OfType(t) == {p \in DOMAIN constructs : constructs[p].type = t}

TypeOf(p) == constructs[p].type

\* the grants a role's policy statements attach to it
StatementGrants(r) ==
  {[managedPolicy |-> "", actions |-> constructs[r].statements[i].actions,
    resources |-> constructs[r].statements[i].resources] :
     i \in 1..Len(constructs[r].statements)}

\* the permissions a role carries: its managed policies and its policy statements
EffectivePermissions(r) ==
  {[managedPolicy |-> m, actions |-> {}, resources |-> {}] :
     m \in constructs[r].managedPolicies}
  \cup StatementGrants(r)

S3Actions == {"s3:GetObject", "s3:PutObject", "s3:ListBucket"}

BucketArn(b) == <<Token(b, "bucketArn")>>

BucketObjects(b) == <<Token(b, "bucketArn"), Lit("/*")>>

Wildcard == <<Lit("*")>>

\* a grant touches storage when it names an S3 action or refers to a bucket
TouchesStorage(g) ==
  \/ g.actions \cap S3Actions # {}
  \/ \E res \in g.resources : ValueRefs(res) \cap OfType("Bucket") # {}

\* role r may perform `action` on `resource`
Allows(r, action, resource) ==
  \E g \in StatementGrants(r) :
     /\ action \in g.actions
     /\ resource \in g.resources \/ Wildcard \in g.resources

\* the constructs a construct's declared properties refer to
Refs(p) ==
  LET c == constructs[p]
  IN  CASE c.type = "Role" ->
             UNION {ValueRefs(res) :
                      res \in UNION {c.statements[i].resources :
                                       i \in 1..Len(c.statements)}}
        [] c.type = "VectorKnowledgeBase" -> {c.existingRole}
        [] c.type = "S3DataSource" -> {c.bucket, c.knowledgeBase}
        [] c.type = "Function" ->
             {c.role} \cup Range(c.layers)
             \cup UNION {ValueRefs(c.environment[k]) : k \in DOMAIN c.environment}
        [] c.type = "Resource" ->
             {c.api} \cup (IF c.parent = <<>> THEN {} ELSE {c.parent})
        [] c.type = "Method" ->
             {c.resource}
             \cup (IF c.integration.handler = <<>> THEN {} ELSE {c.integration.handler})
        [] c.type = "CfnOutput" -> ValueRefs(c.value)
        [] OTHER -> {}

\* the URL path of a resource: the path parts from the root down to it
RECURSIVE ResourcePath(_)
ResourcePath(r) ==
  IF constructs[r].parent = <<>>
    THEN <<>>
    ELSE Append(ResourcePath(constructs[r].parent), constructs[r].pathPart)

\* the methods that invoke a handler
HandlerMethods ==
  {m \in OfType("Method") : constructs[m].integration.type = "AWS_PROXY"}

\* the gateway's routes: (path, verb, target handler)
Routes ==
  {[path    |-> ResourcePath(constructs[m].resource),
    verb    |-> constructs[m].httpMethod,
    handler |-> constructs[m].integration.handler] : m \in HandlerMethods}

\* the resources directly under the API root
TopLevelResources ==
  {r \in OfType("Resource") :
     constructs[r].parent # <<>> /\ constructs[constructs[r].parent].parent = <<>>}

\* the POST methods a resource itself carries that are bound to a handler
PostMethodsOf(r) ==
  {m \in HandlerMethods :
     constructs[m].resource = r /\ constructs[m].httpMethod = "POST"}

ChildResources(r) == {q \in OfType("Resource") : constructs[q].parent = r}

----------------------------------------------------------------------------
(* Properties of the graph.                                                *)

HandlerRole == <<"LambdaServiceRole">>

EngineRole == <<"BedrockServiceRole">>

HandlerA == <<"SpeechToTextFunction">>

HandlerB == <<"QueryWithVoiceFunction">>

\* C1: every grant of every role that touches the storage bucket (an s3:GetObject /
\* s3:PutObject / s3:ListBucket statement, or one naming the bucket) has exactly the
\* two resources bucket-ARN and bucket-ARN/*, and never the bare wildcard.
C1_StorageGrantsScoped ==
  \A r \in OfType("Role") :
    \A g \in StatementGrants(r) :
      TouchesStorage(g) =>
        /\ \E b \in OfType("Bucket") : g.resources = {BucketArn(b), BucketObjects(b)}
        /\ Wildcard \notin g.resources

\* the graph is complete and both roles carry a grant on the bucket
C1_Witness ==
  /\ Done
  /\ OfType("Role") = {HandlerRole, EngineRole}
  /\ \A r \in OfType("Role") : \E g \in StatementGrants(r) : TouchesStorage(g)

\* no step read an unbound reference, and every construct refers only to constructs
\* built before it (a role's grants: to constructs already in the graph)
Topological ==
  /\ error # "ReferenceError"
  /\ DOMAIN constructs = Range(order)
  /\ \A p \in DOMAIN constructs :
       /\ Refs(p) \subseteq DOMAIN constructs
       /\ TypeOf(p) # "Role" => \A q \in Refs(p) : IndexOf(q) < IndexOf(p)

\* the construction order never steps back to an earlier phase
InPhaseOrder(Rank(_)) ==
  \A i, j \in 1..Len(order) :
    i < j => Rank(TypeOf(order[i])) <= Rank(TypeOf(order[j]))

\* leaves -> Roles -> KnowledgeBase -> DataSourceBinding -> Handlers -> Gateway -> Exports
LeavesFirstRank(t) ==
  CASE t \in {"Bucket", "LayerVersion"} -> 0
    [] t = "Role" -> 1
    [] t = "VectorKnowledgeBase" -> 2
    [] t = "S3DataSource" -> 3
    [] t = "Function" -> 4
    [] t \in {"RestApi", "Resource", "Method"} -> 5
    [] t = "CfnOutput" -> 6

\* bucket -> Roles -> KnowledgeBase -> DataSourceBinding -> layer -> Handlers ->
\* Gateway -> Exports
LayerBeforeHandlersRank(t) ==
  CASE t = "Bucket" -> 0
    [] t = "Role" -> 1
    [] t = "VectorKnowledgeBase" -> 2
    [] t = "S3DataSource" -> 3
    [] t = "LayerVersion" -> 4
    [] t = "Function" -> 5
    [] t \in {"RestApi", "Resource", "Method"} -> 6
    [] t = "CfnOutput" -> 7

\* C2 as stated: construction is topological and follows the phases
\* leaves -> Roles -> KnowledgeBase -> DataSourceBinding -> Handlers -> Gateway -> Exports.
C2_Original ==
  /\ Topological
  /\ InPhaseOrder(LeavesFirstRank)

\* C2, amended: at every step of the pass each construct refers only to constructs
\* built earlier and no step reads a reference that is not yet bound; the phases are
\* bucket -> Roles -> KnowledgeBase -> DataSourceBinding -> layer -> Handlers ->
\* Gateway -> Exports (the layer, a leaf, is built after the DataSourceBinding).
C2_TopologicalOrder ==
  /\ Topological
  /\ InPhaseOrder(LayerBeforeHandlersRank)

\* the whole graph is built, the layer after the data source
C2_Witness ==
  /\ Done
  /\ IndexOf(<<"S3DataSource">>) > 0
  /\ IndexOf(<<"S3DataSource">>) < IndexOf(<<"TranscribeLayer">>)
  /\ OfType("CfnOutput") # {}

OverlapFraction(ds) ==
  [num |-> constructs[ds].chunkingStrategy.overlapPercentage, den |-> 100]

C5_HandlerEnvironments ==
  Done =>
    /\ {HandlerA, HandlerB} \subseteq OfType("Function")
    /\ LET envA == constructs[HandlerA].environment
           envB == constructs[HandlerB].environment
       IN  /\ DOMAIN envB = {"KNOWLEDGE_BASE_ID", "REGION", "DATA_SOURCE_ID"}
           /\ \E kb \in OfType("VectorKnowledgeBase") :
                /\ envB.KNOWLEDGE_BASE_ID = <<Token(kb, "knowledgeBaseId")>>
                /\ IndexOf(kb) < IndexOf(HandlerB)
                /\ \E ds \in OfType("S3DataSource") :
                     /\ envB.DATA_SOURCE_ID = <<Token(ds, "dataSourceId")>>
                     /\ constructs[ds].knowledgeBase = kb
                     /\ IndexOf(ds) < IndexOf(HandlerB)
           /\ envB.REGION = <<Lit(region)>>
           /\ DOMAIN envA = {"REGION"}
           /\ envA.REGION = <<Lit(region)>>

\* both handlers are in the completed graph
C5_Witness ==
  /\ Done
  /\ {HandlerA, HandlerB} \subseteq OfType("Function")
  /\ region = "eu-west-1"

\* C6: the completed gateway has exactly the routes POST /knowledge-base/query ->
\* Handler B and POST /transcribe -> Handler A; at every step each route's handler
\* was built before the route, no (path, verb) has two handlers and no route is a
\* catch-all.
C6_RouteSet ==
  /\ \A m \in HandlerMethods :
       /\ constructs[m].integration.handler \in OfType("Function")
       /\ IndexOf(constructs[m].integration.handler) < IndexOf(m)
       /\ constructs[m].httpMethod # "ANY"
       /\ constructs[constructs[m].resource].pathPart # "{proxy+}"
  /\ \A r1, r2 \in Routes :
       (r1.path = r2.path /\ r1.verb = r2.verb) => r1.handler = r2.handler
  /\ Done =>
       Routes = { [path |-> <<"knowledge-base", "query">>, verb |-> "POST",
                   handler |-> HandlerB],
                  [path |-> <<"transcribe">>, verb |-> "POST",
                   handler |-> HandlerA] }

\* both routes are registered
C6_Witness ==
  /\ Done
  /\ Cardinality(Routes) = 2

\* C7 as stated: two top-level resources, each carrying exactly one POST method
\* bound to a handler.
C7_Original ==
  Done =>
    /\ Cardinality(TopLevelResources) = 2
    /\ \A r \in TopLevelResources : Cardinality(PostMethodsOf(r)) = 1

\* C7, amended: the gateway has exactly two top-level resources; /transcribe carries
\* exactly one POST method, bound to Handler A; /knowledge-base carries no method
\* bound to a handler: its only child resource, /knowledge-base/query, carries
\* exactly one POST method, bound to Handler B.
C7_TopLevelResources ==
  Done =>
    /\ {ResourcePath(r) : r \in TopLevelResources}
         = {<<"knowledge-base">>, <<"transcribe">>}
    /\ Cardinality(TopLevelResources) = 2
    /\ \A r \in TopLevelResources :
         LET mine == {m \in HandlerMethods : constructs[m].resource = r}
         IN  IF ResourcePath(r) = <<"transcribe">>
               THEN /\ mine = PostMethodsOf(r)
                    /\ Cardinality(mine) = 1
                    /\ \A m \in mine : constructs[m].integration.handler = HandlerA
                    /\ ChildResources(r) = {}
               ELSE /\ mine = {}
                    /\ Cardinality(ChildResources(r)) = 1
                    /\ \A q \in ChildResources(r) :
                         LET its == {m \in HandlerMethods : constructs[m].resource = q}
                         IN  /\ ResourcePath(q) = <<"knowledge-base", "query">>
                             /\ its = PostMethodsOf(q)
                             /\ Cardinality(its) = 1
                             /\ \A m \in its :
                                  constructs[m].integration.handler = HandlerB
                             /\ ChildResources(q) = {}

\* the gateway is complete: a top-level resource without a POST method of its own
C7_Witness ==
  /\ Done
  /\ \E r \in TopLevelResources : PostMethodsOf(r) = {}
  /\ \E r \in TopLevelResources : PostMethodsOf(r) # {}

C9_NoIdentityCollision ==
  /\ \A i, j \in 1..Len(order) : order[i] = order[j] => i = j
  /\ DOMAIN constructs = Range(order)
  /\ error = "collision" =>
       /\ pc = "aborted"
       /\ id \in scopeChildren
       /\ constructs = <<>>
  /\ Done => error = "none" /\ id \in scopeChildren

\* the pass was aborted by a collision
C9_Witness ==
  /\ pc = "aborted"
  /\ error = "collision"

====
